---- MODULE Spec2Model ----
(***************************************************************************)
(* CivicLens backend: the issue routes (list, get, create, update), the    *)
(* SLA calculation, the role scoping and the Redis cache helper, modelled  *)
(* as a state machine over the issues table and its lifecycle rows.        *)
(***************************************************************************)
EXTENDS Integers, Sequences, FiniteSets, TLC

VARIABLES
    issues,     \* the issues table with its issue_lifecycle rows: id -> row
    nextId,     \* the next primary key the database hands out
    now,        \* the clock (new Date().getTime()), in milliseconds
    cache,      \* the Redis keyspace: key -> [value, expires]
    resp,       \* the request just handled by a handler run to completion, and its response
    req,        \* handlers in flight, one slot per concurrent request
    comments,   \* the comments table, in insertion order
    attachments,\* the attachments table, in insertion order
    meetings    \* the meetings table: id -> row

vars == <<issues, nextId, now, cache, resp, req, comments, attachments, meetings>>

-----------------------------------------------------------------------------
(* Bounds of the model *)

MaxIssues == 1          \* issues ever created
MaxLifecycle == 4       \* lifecycle rows per issue
MaxPatchFields == 1     \* fields present in one update body
MaxHours == 6           \* hours the clock advances
MaxReqs == 2            \* requests handled concurrently
MaxCached == 1          \* list results held in the cache
MaxQueryFields == 1     \* filters present in one list query
MaxHalfHours == 340     \* half hours between createdAt and the clock reading
MaxComments == 1        \* rows of the comments table
MaxAttachments == 1     \* rows of the attachments table
MaxDashTicks == 4       \* steps of a hundred seconds the dashboard clock advances
MaxMeetings == 1        \* meetings stored at a time

-----------------------------------------------------------------------------
(* Values *)

NULL == "NULL"                      \* SQL NULL / JS undefined
None == <<>>                        \* an optional request field that is absent
Some(v) == <<v>>                    \* an optional request field that is present
Opt(S) == {None} \cup {Some(v) : v \in S}
IsSome(o) == o # None
Val(o) == o[1]

HourMs == 1000 * 60 * 60

Role == {"ADMIN", "DEPARTMENT_HEAD", "TEAM_MEMBER"}
IssueStatus == {"PENDING", "IN_PROGRESS", "RESOLVED", "CLOSED"}
Priority == {"LOW", "MEDIUM", "HIGH", "CRITICAL"}
LifecycleStep == {"REPORTED", "ACKNOWLEDGED", "ASSIGNED", "RESOLVED", "CITIZEN_VERIFIED"}
LifecycleStatus == {"PENDING", "CURRENT", "COMPLETED"}

Departments == {"Public Works", "Sanitation Dept"}

\* The authenticated users (req.user as loaded by authenticate).
Admin == [id |-> "admin", role |-> "ADMIN", department |-> NULL]
Head1 == [id |-> "head1", role |-> "DEPARTMENT_HEAD", department |-> "Public Works"]
Tm1 == [id |-> "tm1", role |-> "TEAM_MEMBER", department |-> "Public Works"]
Tm2 == [id |-> "tm2", role |-> "TEAM_MEMBER", department |-> "Sanitation Dept"]
\* A second team member of Public Works, and a department head registered
\* without a department.
Tm3 == [id |-> "tm3", role |-> "TEAM_MEMBER", department |-> "Public Works"]
Head0 == [id |-> "head0", role |-> "DEPARTMENT_HEAD", department |-> NULL]
Users == {Admin, Head1, Head0, Tm1, Tm2, Tm3}

\* The users whose requests are explored (Tm2 appears as an assignee).
Actors == {Admin, Head1, Tm1}

IssueIds == 1..MaxIssues


-----------------------------------------------------------------------------
(* Request bodies *)

\* Texts are sequences of characters, so that length checks and searches compute.
TitleRoad == <<"R", "o", "a", "d", " ", "h", "o", "l", "e">>
TitleLamp == <<"L", "a", "m", "p", " ", "o", "u", "t">>
TitleShort == <<"L", "a", "m", "p">>
DescrLong == <<"N", "e", "a", "r", " ", "t", "h", "e", " ", "p", "a", "r", "k">>
AddressMain == <<"M", "a", "i", "n", " ", "S", "t">>

\* The lifecycle rows the create handler writes.
InitialLifecycle ==
    << [step |-> "REPORTED", status |-> "COMPLETED"],
       [step |-> "ACKNOWLEDGED", status |-> "CURRENT"] >>

\* A PUT body with no field present.
EmptyPatch ==
    [title |-> None, description |-> None, status |-> None, priority |-> None,
     assignedToId |-> None, department |-> None, lifecycle |-> None]

PatchFields == {"title", "description", "status", "priority", "assignedToId",
                "department", "lifecycle"}

NumFields(b) == Cardinality({f \in PatchFields : IsSome(b[f])})

-----------------------------------------------------------------------------
(* SLA *)

slaHours == [CRITICAL |-> 4, HIGH |-> 24, MEDIUM |-> 72, LOW |-> 168]

maxHoursOf(priority) ==
    IF priority \in DOMAIN slaHours THEN slaHours[priority] ELSE 72

diffHoursOf(createdAt, at) == (at - createdAt) \div HourMs

\* calculateSLAAt with every remaining time under a day rendered in hours.
calculateSLAAtHoursUnderADay(createdAt, status, priority, at) ==
    LET diffHours == diffHoursOf(createdAt, at)
        maxHours == maxHoursOf(priority)
        remainingHours == maxHours - diffHours
    IN  IF status = "RESOLVED" \/ status = "CLOSED" THEN "Closed"
        ELSE IF diffHours > maxHours THEN "Overdue"
        ELSE IF remainingHours < 24 THEN ToString(remainingHours) \o "h left"
        ELSE ToString(remainingHours \div 24) \o "d left"

\* calculateSLA with the clock reading `at` (now = new Date()).
calculateSLAAt(createdAt, status, priority, at) ==
    LET diffHours == diffHoursOf(createdAt, at)
        maxHours == maxHoursOf(priority)
        remainingHours == maxHours - diffHours
    IN  IF status = "RESOLVED" \/ status = "CLOSED" THEN "Closed"
        ELSE IF diffHours > maxHours THEN "Overdue"
        ELSE IF remainingHours <= 2 THEN ToString(remainingHours) \o "h left"
        ELSE ToString(remainingHours \div 24) \o "d left"

calculateSLA(createdAt, status, priority) ==
    calculateSLAAt(createdAt, status, priority, now)

WithSLA(row) ==
    [f \in DOMAIN row \cup {"sla"} |->
        IF f = "sla" THEN calculateSLA(row.createdAt, row.status, row.priority)
        ELSE row[f]]

-----------------------------------------------------------------------------
(* Role checks of the single-issue handlers *)

\* AccessDenied without the check of the assignee for a TEAM_MEMBER.
AccessDeniedDepartmentHeadOnly(user, issue) ==
    user.role = "DEPARTMENT_HEAD" /\ issue.department # user.department

\* AccessDenied without the check of the department of a DEPARTMENT_HEAD.
AccessDeniedTeamMemberOnly(user, issue) ==
    user.role = "TEAM_MEMBER" /\ issue.assignedToId # user.id

\* The permission check shared by GET /:id, PUT /:id and POST /:id/comments.
AccessDenied(user, issue) ==
    \/ user.role = "TEAM_MEMBER" /\ issue.assignedToId # user.id
    \/ user.role = "DEPARTMENT_HEAD" /\ issue.department # user.department

-----------------------------------------------------------------------------
(* Redis cache helper *)

\* Keys are tuples: <<"issues:", where, skip, limitNum>> for a list result, and
\* the one-element tuple of the literal string the handlers pass to cache.del.
IssuesStar == <<"issues:*">>

\* client.del(key): DEL removes the key with exactly this name.
cacheDel(c, key) == [k \in DOMAIN c \ {key} |-> c[k]]

\* How a call of the cache helper ends when the Redis command rejects, were its
\* catch block to rethrow.
cacheCallRethrows(up) == IF up THEN "ok" ELSE "thrown"

\* How a call of the cache helper (get, set, del) ends: `up` says whether the
\* Redis command resolves; a rejection is caught and logged, the helper returns.
cacheCall(up) == IF up THEN "ok" ELSE "logged"

\* How an awaited prisma write ends, were the handler to catch and log its
\* rejection and go on.
prismaCallCaught(db) == IF db THEN "ok" ELSE "logged"

\* How an awaited prisma write ends: `db` says whether the database performs it;
\* the handlers have no try/catch, a rejection leaves the handler at the await.
prismaCall(db) == IF db THEN "ok" ELSE "thrown"

\* The number of errors the cache helper logged over the given calls.
Logged(outcomes) == Cardinality({k \in DOMAIN outcomes : outcomes[k] = "logged"})


-----------------------------------------------------------------------------
(* Validation schemas (zod): validate() answers 400 when parse throws, and
   leaves req.body as it was sent, keys outside the schema included. *)

createIssueSchema(b) ==
    /\ Len(b.title) >= 5
    /\ Len(b.description) >= 10
    /\ b.department # ""
    /\ b.latitude >= -90 /\ b.latitude <= 90
    /\ b.longitude >= -180 /\ b.longitude <= 180
    /\ (IsSome(b.priority) => Val(b.priority) \in Priority)

updateIssueSchema(b) ==
    /\ (IsSome(b.title) => Len(Val(b.title)) >= 5)
    /\ (IsSome(b.description) => Len(Val(b.description)) >= 10)
    /\ (IsSome(b.status) => Val(b.status) \in IssueStatus)
    /\ (IsSome(b.priority) => Val(b.priority) \in Priority)

-----------------------------------------------------------------------------
(* Responses *)

\* What a handler leaves behind: the request (op, actor, id, body), the row it
\* read (current), the status code and payload it answered, the event it emitted.
NoResp ==
    [op |-> "none", actor |-> NULL, id |-> 0, body |-> <<>>, current |-> <<>>,
     code |-> 0, data |-> <<>>, pagination |-> <<>>, event |-> <<>>, cacheErrors |-> 0]

\* The answer of asyncHandler's catch and the error middleware to a rejected await.
ServerError(op, user, id, body, current) ==
    [op |-> op, actor |-> user.id, id |-> id, body |-> body, current |-> current,
     code |-> 500, data |-> <<>>, pagination |-> <<>>, event |-> <<>>, cacheErrors |-> 0]

Response(op, user, id, body, current, code, data, event) ==
    [op |-> op, actor |-> user.id, id |-> id, body |-> body, current |-> current,
     code |-> code, data |-> data, pagination |-> <<>>, event |-> event, cacheErrors |-> 0]

-----------------------------------------------------------------------------
(* POST /api/issues *)

\* NewIssue with the ACKNOWLEDGED row left out of the nested create.
NewIssueReportedOnly(user, b, id) ==
    [id |-> id,
     title |-> b.title,
     description |-> b.description,
     department |-> b.department,
     latitude |-> b.latitude,
     longitude |-> b.longitude,
     address |-> b.address,
     priority |-> IF IsSome(b.priority) THEN Val(b.priority) ELSE "MEDIUM",
     status |-> "PENDING",
     reportedById |-> user.id,
     assignedToId |-> NULL,
     createdAt |-> now,
     lifecycle |-> <<[step |-> "REPORTED", status |-> "COMPLETED"]>>]

\* prisma.issue.create: the row and its two lifecycle rows, in one write.
NewIssue(user, b, id) ==
    [id |-> id,
     title |-> b.title,
     description |-> b.description,
     department |-> b.department,
     latitude |-> b.latitude,
     longitude |-> b.longitude,
     address |-> b.address,
     priority |-> IF IsSome(b.priority) THEN Val(b.priority) ELSE "MEDIUM",
     status |-> "PENDING",
     reportedById |-> user.id,
     assignedToId |-> NULL,
     createdAt |-> now,
     lifecycle |-> InitialLifecycle]

\* The handler, with `up` saying whether Redis answers during the request and
\* `db` whether the database performs the write.
CreateIssueWith(user, b, up, db) ==
    /\ nextId <= MaxIssues
    /\ IF ~createIssueSchema(b)
       THEN /\ resp' = Response("create", user, 0, <<b>>, <<>>, 400, <<>>, <<>>)
            /\ UNCHANGED <<issues, nextId, cache>>
       ELSE IF prismaCall(db) = "thrown"
       THEN /\ resp' = ServerError("create", user, 0, <<b>>, <<>>)
            /\ UNCHANGED <<issues, nextId, cache>>
       ELSE LET issue == NewIssue(user, b, nextId)
                del == cacheCall(up)
            IN  /\ issues' = IF db THEN (nextId :> issue) @@ issues ELSE issues
                /\ nextId' = IF db THEN nextId + 1 ELSE nextId
                /\ cache' = IF up THEN cacheDel(cache, IssuesStar) ELSE cache
                /\ resp' = IF del = "thrown"
                           THEN ServerError("create", user, nextId, <<b>>, <<>>)
                           ELSE [Response("create", user, nextId, <<b>>, <<>>, 201, <<issue>>,
                                          <<[type |-> "issue-created", id |-> nextId]>>)
                                    EXCEPT !.cacheErrors = Logged(<<del>>)]
    /\ UNCHANGED <<now, req, comments, attachments, meetings>>

CreateIssue(user, b) == CreateIssueWith(user, b, TRUE, TRUE)

-----------------------------------------------------------------------------
(* GET /api/issues/:id *)

GetIssue(user, id) ==
    /\ IF id \notin DOMAIN issues
       THEN resp' = Response("get", user, id, <<>>, <<>>, 404, <<>>, <<>>)
       ELSE IF AccessDenied(user, issues[id])
       THEN resp' = Response("get", user, id, <<>>, <<issues[id]>>, 403, <<>>, <<>>)
       ELSE resp' = Response("get", user, id, <<>>, <<issues[id]>>, 200, <<WithSLA(issues[id])>>, <<>>)
    /\ UNCHANGED <<issues, nextId, now, cache, req, comments, attachments, meetings>>

-----------------------------------------------------------------------------
(* PUT /api/issues/:id *)

\* lifecycleUpdates without the check of the current status before the RESOLVED row.
lifecycleUpdatesAlwaysResolved(updates, currentIssue) ==
    (IF IsSome(updates.assignedToId) /\ Val(updates.assignedToId) # ""
        /\ Val(updates.assignedToId) # currentIssue.assignedToId
     THEN <<[step |-> "ASSIGNED", status |-> "COMPLETED"]>> ELSE <<>>)
    \o
    (IF updates.status = Some("RESOLVED")
     THEN <<[step |-> "RESOLVED", status |-> "COMPLETED"]>> ELSE <<>>)

\* The lifecycle rows the handler decides to add, from the body and the row it read.
lifecycleUpdates(updates, currentIssue) ==
    (IF IsSome(updates.assignedToId) /\ Val(updates.assignedToId) # ""
        /\ Val(updates.assignedToId) # currentIssue.assignedToId
     THEN <<[step |-> "ASSIGNED", status |-> "COMPLETED"]>> ELSE <<>>)
    \o
    (IF updates.status = Some("RESOLVED") /\ currentIssue.status # "RESOLVED"
     THEN <<[step |-> "RESOLVED", status |-> "COMPLETED"]>> ELSE <<>>)

\* The lifecycle rows after prisma.issue.update: data is the body spread, with
\* its lifecycle key replaced by createMany when the handler has rows to add;
\* otherwise a lifecycle key of the body is the nested write prisma performs
\* (deleteMany: {} removes the rows of the issue, create adds rows).
lifecycleWrite(old, updates, lcUpdates) ==
    IF Len(lcUpdates) > 0 THEN old \o lcUpdates
    ELSE IF IsSome(updates.lifecycle)
    THEN (IF Val(updates.lifecycle).deleteMany THEN <<>> ELSE old)
            \o Val(updates.lifecycle).create
    ELSE old

Field(updates, f, old) == IF IsSome(updates[f]) THEN Val(updates[f]) ELSE old

\* prisma.issue.update({ where: { id }, data }) applied to the stored row.
issueUpdate(row, updates, lcUpdates) ==
    [row EXCEPT
        !.title = Field(updates, "title", @),
        !.description = Field(updates, "description", @),
        !.status = Field(updates, "status", @),
        !.priority = Field(updates, "priority", @),
        !.assignedToId = Field(updates, "assignedToId", @),
        !.department = Field(updates, "department", @),
        !.lifecycle = lifecycleWrite(@, updates, lcUpdates)]

UpdateIssueWith(user, id, updates, up, db) ==
    /\ IF ~updateIssueSchema(updates)
       THEN /\ resp' = Response("update", user, id, <<updates>>, <<>>, 400, <<>>, <<>>)
            /\ UNCHANGED <<issues, cache>>
       ELSE IF id \notin DOMAIN issues
       THEN /\ resp' = Response("update", user, id, <<updates>>, <<>>, 404, <<>>, <<>>)
            /\ UNCHANGED <<issues, cache>>
       ELSE IF AccessDenied(user, issues[id])
       THEN /\ resp' = Response("update", user, id, <<updates>>, <<issues[id]>>, 403, <<>>, <<>>)
            /\ UNCHANGED <<issues, cache>>
       ELSE IF prismaCall(db) = "thrown"
       THEN /\ resp' = ServerError("update", user, id, <<updates>>, <<issues[id]>>)
            /\ UNCHANGED <<issues, cache>>
       ELSE LET issue == issueUpdate(issues[id], updates,
                                     lifecycleUpdates(updates, issues[id]))
                del == cacheCall(up)
            IN  /\ Len(issue.lifecycle) <= MaxLifecycle
                /\ issues' = IF db THEN [issues EXCEPT ![id] = issue] ELSE issues
                /\ cache' = IF up THEN cacheDel(cache, IssuesStar) ELSE cache
                /\ resp' = IF del = "thrown"
                           THEN ServerError("update", user, id, <<updates>>, <<issues[id]>>)
                           ELSE [Response("update", user, id, <<updates>>, <<issues[id]>>, 200,
                                          <<issue>>, <<[type |-> "issue-updated", id |-> id]>>)
                                    EXCEPT !.cacheErrors = Logged(<<del>>)]
    /\ UNCHANGED <<nextId, now, req, comments, attachments, meetings>>

UpdateIssue(user, id, updates) == UpdateIssueWith(user, id, updates, TRUE, TRUE)


-----------------------------------------------------------------------------
(* Inputs *)

CreateBody(title, department, latitude, priority) ==
    [title |-> title, description |-> DescrLong, department |-> department,
     latitude |-> latitude, longitude |-> 85, address |-> Some(AddressMain),
     priority |-> priority]

CreateBodies ==
    {CreateBody(TitleRoad, d, 23, None) : d \in Departments}
    \cup {CreateBody(TitleShort, "Public Works", 23, None),
          CreateBody(TitleRoad, "Public Works", 91, None)}

\* Nested writes on the lifecycle relation, as a body can carry them.
CitizenVerified ==
    [create |-> <<[step |-> "CITIZEN_VERIFIED", status |-> "COMPLETED"]>>,
     deleteMany |-> FALSE]

DeleteLifecycle == [create |-> <<>>, deleteMany |-> TRUE]

UpdateBodies ==
    {b \in [title : {None},
            description : {None},
            status : Opt(IssueStatus \cup {"BOGUS"}),
            priority : Opt({"HIGH"}),
            assignedToId : Opt({"tm1", "tm2"}),
            department : Opt({"Sanitation Dept"}),
            lifecycle : Opt({CitizenVerified})] :
        NumFields(b) <= MaxPatchFields}

-----------------------------------------------------------------------------
(* The handlers, each run to completion *)

Init ==
    /\ issues = <<>>
    /\ nextId = 1
    /\ now = 0
    /\ cache = <<>>
    /\ resp = NoResp
    /\ req = <<>>
    /\ comments = <<>>
    /\ attachments = <<>>
    /\ meetings = <<>>

Next ==
    \/ \E u \in Actors, b \in CreateBodies : CreateIssue(u, b)
    \/ \E u \in Actors, i \in IssueIds : GetIssue(u, i)
    \/ \E u \in Actors, i \in IssueIds, b \in UpdateBodies : UpdateIssue(u, i, b)

Spec == Init /\ [][Next]_vars


-----------------------------------------------------------------------------
(* GET /api/issues *)

UpperChars == <<"A", "B", "C", "D", "E", "F", "G", "H", "I", "J", "K", "L", "M",
                "N", "O", "P", "Q", "R", "S", "T", "U", "V", "W", "X", "Y", "Z">>
LowerChars == <<"a", "b", "c", "d", "e", "f", "g", "h", "i", "j", "k", "l", "m",
                "n", "o", "p", "q", "r", "s", "t", "u", "v", "w", "x", "y", "z">>

ToLower ==
    [c \in {UpperChars[k] : k \in 1..Len(UpperChars)} |->
        LowerChars[CHOOSE k \in 1..Len(UpperChars) : UpperChars[k] = c]]

Lower(c) == IF c \in DOMAIN ToLower THEN ToLower[c] ELSE c

\* { contains: search, mode: 'insensitive' }
Contains(text, search) ==
    \E off \in 0..(Len(text) - Len(search)) :
        \A k \in 1..Len(search) : Lower(text[off + k]) = Lower(search[k])

DigitChars == <<"0", "1", "2", "3", "4", "5", "6", "7", "8", "9">>

DigitOf(c) == (CHOOSE k \in 1..Len(DigitChars) : DigitChars[k] = c) - 1

\* parseInt of a string of decimal digits.
RECURSIVE parseInt(_)
parseInt(str) ==
    IF Len(str) = 1 THEN DigitOf(str[1])
    ELSE 10 * parseInt(SubSeq(str, 1, Len(str) - 1)) + DigitOf(str[Len(str)])

querySchema(q) ==
    /\ (IsSome(q.status) => Val(q.status) \in IssueStatus)
    /\ (IsSome(q.priority) => Val(q.priority) \in Priority)

NoWhere ==
    [assignedToId |-> None, department |-> None, status |-> None,
     priority |-> None, search |-> None]

\* roleWhere without the DEPARTMENT_HEAD branch.
roleWhereTeamMemberOnly(user) ==
    IF user.role = "TEAM_MEMBER"
    THEN [NoWhere EXCEPT !.assignedToId = Some(user.id)]
    ELSE NoWhere

\* The role-based part of the where clause.
roleWhere(user) ==
    IF user.role = "TEAM_MEMBER"
    THEN [NoWhere EXCEPT !.assignedToId = Some(user.id)]
    ELSE IF user.role = "DEPARTMENT_HEAD" /\ user.department # NULL
            /\ user.department # ""
    THEN [NoWhere EXCEPT !.department = Some(user.department)]
    ELSE NoWhere

\* if (x): a query string that is present and not empty (search is a text).
Truthy(o) == IsSome(o) /\ Val(o) # ""
TruthyText(o) == IsSome(o) /\ Len(Val(o)) > 0

\* The where clause: the role-based keys, then the query's filters assigned onto
\* the same object.
whereClause(user, q) ==
    LET w0 == roleWhere(user)
    IN  [w0 EXCEPT
            !.status = IF Truthy(q.status) THEN q.status ELSE @,
            !.priority = IF Truthy(q.priority) THEN q.priority ELSE @,
            !.department = IF Truthy(q.department) THEN q.department ELSE @,
            !.assignedToId = IF Truthy(q.assignedToId) THEN q.assignedToId ELSE @,
            !.search = IF TruthyText(q.search) THEN q.search ELSE @]

\* A row satisfies a Prisma where object (its keys are ANDed, OR is the search).
Matches(row, where) ==
    /\ (IsSome(where.assignedToId) => row.assignedToId = Val(where.assignedToId))
    /\ (IsSome(where.department) => row.department = Val(where.department))
    /\ (IsSome(where.status) => row.status = Val(where.status))
    /\ (IsSome(where.priority) => row.priority = Val(where.priority))
    /\ (IsSome(where.search) =>
            \/ Contains(row.title, Val(where.search))
            \/ Contains(row.description, Val(where.search))
            \/ (IsSome(row.address) /\ Contains(Val(row.address), Val(where.search))))

\* orderBy: { createdAt: 'desc' }: rows of equal createdAt come in any order.
IsOrderedDesc(ord) ==
    \A k \in 1..(Len(ord) - 1) : issues[ord[k]].createdAt >= issues[ord[k + 1]].createdAt

Orders(ids) ==
    {ord \in [1..Cardinality(ids) -> ids] :
        /\ \A a, b \in 1..Cardinality(ids) : a # b => ord[a] # ord[b]
        /\ IsOrderedDesc(ord)}

Min(a, b) == IF a < b THEN a ELSE b

\* skip and take over the ordered rows.
Page(ord, skip, take) ==
    [k \in 1..(IF Len(ord) - skip < 0 THEN 0 ELSE Min(take, Len(ord) - skip)) |->
        ord[skip + k]]

Ceil(a, b) == (a + b - 1) \div b

cacheKey(where, skip, limitNum) == <<"issues:", where, skip, limitNum>>

\* cache.get: the stored value, or null when the key is absent or has expired.
cacheHit(c, key) == key \in DOMAIN c /\ now < c[key].expires

\* cache.set(key, value, ttl): SETEX with ttl seconds.
cacheSet(c, key, value, ttl) ==
    (key :> [value |-> value, expires |-> now + ttl * 1000]) @@ c

ListIssuesWith(user, q, up) ==
    /\ IF ~querySchema(q)
       THEN /\ resp' = Response("list", user, 0, <<q>>, <<>>, 400, <<>>, <<>>)
            /\ UNCHANGED cache
       ELSE LET pageNum == parseInt(IF IsSome(q.page) THEN Val(q.page) ELSE <<"1">>)
                limitNum == parseInt(IF IsSome(q.limit) THEN Val(q.limit) ELSE <<"1", "0">>)
                skip == (pageNum - 1) * limitNum
                where == whereClause(user, q)
                key == cacheKey(where, skip, limitNum)
                get == cacheCall(up)
                set == cacheCall(up)
            IN  IF get = "thrown"
                THEN /\ resp' = ServerError("list", user, 0, <<q>>, <<>>)
                     /\ UNCHANGED cache
                ELSE IF get = "ok" /\ cacheHit(cache, key)
                THEN /\ resp' = [Response("list", user, 0, <<q>>, <<>>, 200,
                                          cache[key].value.issues, <<>>)
                                    EXCEPT !.pagination = <<cache[key].value.pagination>>]
                     /\ UNCHANGED cache
                ELSE LET found == {i \in DOMAIN issues : Matches(issues[i], where)}
                         total == Cardinality(found)
                         pagination == [page |-> pageNum, limit |-> limitNum,
                                        total |-> total, pages |-> Ceil(total, limitNum)]
                     IN  \E ord \in Orders(found) :
                            LET ids == Page(ord, skip, limitNum)
                                issuesWithSLA == [k \in 1..Len(ids) |-> WithSLA(issues[ids[k]])]
                            IN  /\ up => Cardinality(DOMAIN cache \ {key}) < MaxCached
                                /\ cache' = IF up
                                            THEN cacheSet(cache, key,
                                                    [issues |-> issuesWithSLA,
                                                     pagination |-> pagination], 300)
                                            ELSE cache
                                /\ resp' = IF set = "thrown"
                                           THEN ServerError("list", user, 0, <<q>>, <<>>)
                                           ELSE [Response("list", user, 0, <<q>>, <<>>, 200,
                                                          issuesWithSLA, <<>>)
                                                    EXCEPT !.pagination = <<pagination>>,
                                                           !.cacheErrors = Logged(<<get, set>>)]
    /\ UNCHANGED <<issues, nextId, now, req, comments, attachments, meetings>>

ListIssues(user, q) == ListIssuesWith(user, q, TRUE)

NoQuery ==
    [page |-> None, limit |-> None, status |-> None, priority |-> None,
     department |-> None, assignedToId |-> None, search |-> None]

QueryFilters == {"status", "priority", "department", "assignedToId", "search"}

NumFilters(q) == Cardinality({f \in QueryFilters : IsSome(q[f])})

SearchRoad == <<"R", "O", "A", "D">>

Queries ==
    {q \in [page : Opt({<<"2">>}),
            limit : Opt({<<"1">>}),
            status : Opt({"PENDING", "BOGUS"}),
            priority : Opt({"MEDIUM"}),
            department : Opt(Departments),
            assignedToId : Opt({"tm1", "tm2"}),
            search : Opt({SearchRoad})] :
        /\ NumFilters(q) <= MaxQueryFields
        /\ IsSome(q.page) = IsSome(q.limit)
        /\ (IsSome(q.page) => NumFilters(q) = 0)}

\* The table the list requests meet: one issue in each department, created by
\* the admin.
ListRows ==
    (1 :> NewIssue(Admin, CreateBody(TitleRoad, "Public Works", 23, None), 1))
    @@ (2 :> NewIssue(Admin, CreateBody(TitleLamp, "Sanitation Dept", 23, None), 2))

ListUpdateBodies ==
    {[EmptyPatch EXCEPT !.assignedToId = Some("tm1")],
     [EmptyPatch EXCEPT !.status = Some("RESOLVED")]}

InitList ==
    /\ now = 0
    /\ issues = ListRows
    /\ nextId = 3
    /\ cache = <<>>
    /\ resp = NoResp
    /\ req = <<>>
    /\ comments = <<>>
    /\ attachments = <<>>
    /\ meetings = <<>>

NextList ==
    \/ \E i \in IssueIds, b \in ListUpdateBodies : UpdateIssue(Admin, i, b)
    \/ \E u \in Actors, q \in Queries : ListIssues(u, q)

SpecList == InitList /\ [][NextList]_vars

-----------------------------------------------------------------------------
(* PUT /api/issues/:id, await by await: requests interleave between the
   findUnique, the update and the cache.del of one handler. *)

IdleReq ==
    [pc |-> "idle", actor |-> NULL, id |-> 0, body |-> <<>>, current |-> <<>>,
     lcUpdates |-> <<>>, code |-> 0, data |-> <<>>, event |-> <<>>]

ReqIds == 1..MaxReqs

\* validate, findUnique, the permission checks and the lifecycleUpdates pushes.
UpdateRead(r, user, id, updates) ==
    /\ req[r].pc = "idle"
    /\ LET q == [IdleReq EXCEPT !.actor = user.id, !.id = id, !.body = <<updates>>]
       IN  IF ~updateIssueSchema(updates)
           THEN req' = [req EXCEPT ![r] = [q EXCEPT !.pc = "done", !.code = 400]]
           ELSE IF id \notin DOMAIN issues
           THEN req' = [req EXCEPT ![r] = [q EXCEPT !.pc = "done", !.code = 404]]
           ELSE IF AccessDenied(user, issues[id])
           THEN req' = [req EXCEPT ![r] =
                          [q EXCEPT !.pc = "done", !.code = 403,
                                    !.current = <<issues[id]>>]]
           ELSE req' = [req EXCEPT ![r] =
                          [q EXCEPT !.pc = "update",
                                    !.current = <<issues[id]>>,
                                    !.lcUpdates = lifecycleUpdates(updates, issues[id])]]
    /\ UNCHANGED <<issues, nextId, now, cache, resp, comments, attachments, meetings>>

\* prisma.issue.update: the body and the rows decided at the read, written onto
\* the row as it is in the table now.
UpdateWrite(r) ==
    /\ req[r].pc = "update"
    /\ req[r].id \in DOMAIN issues
    /\ LET issue == issueUpdate(issues[req[r].id], req[r].body[1], req[r].lcUpdates)
       IN  /\ Len(issue.lifecycle) <= MaxLifecycle
           /\ issues' = [issues EXCEPT ![req[r].id] = issue]
           /\ req' = [req EXCEPT ![r].pc = "del", ![r].data = <<issue>>]
    /\ UNCHANGED <<nextId, now, cache, resp, comments, attachments, meetings>>

\* cache.del('issues:*'), io.emit('issue-updated'), res.json.
UpdateFinish(r) ==
    /\ req[r].pc = "del"
    /\ cache' = cacheDel(cache, IssuesStar)
    /\ req' = [req EXCEPT ![r].pc = "done", ![r].code = 200,
                          ![r].event = <<[type |-> "issue-updated", id |-> req[r].id]>>]
    /\ UNCHANGED <<issues, nextId, now, resp, comments, attachments, meetings>>

\* The issue the concurrent requests meet: created by the admin, and the same
\* issue after the admin assigned it to tm1.
AssignTm1Patch == [EmptyPatch EXCEPT !.assignedToId = Some("tm1")]

FreshRow == NewIssue(Admin, CreateBody(TitleRoad, "Public Works", 23, None), 1)

AssignedRow ==
    issueUpdate(FreshRow, AssignTm1Patch, lifecycleUpdates(AssignTm1Patch, FreshRow))

ConcActors == {Admin, Tm1}

ConcBodies ==
    {[EmptyPatch EXCEPT !.status = Some("RESOLVED")],
     [EmptyPatch EXCEPT !.status = Some("IN_PROGRESS")],
     [EmptyPatch EXCEPT !.assignedToId = Some("tm2")]}

InitConc ==
    /\ now = 0
    /\ issues \in {(1 :> FreshRow), (1 :> AssignedRow)}
    /\ nextId = 2
    /\ cache = <<>>
    /\ resp = NoResp
    /\ req = [r \in ReqIds |-> IdleReq]
    /\ comments = <<>>
    /\ attachments = <<>>
    /\ meetings = <<>>

NextConc ==
    \/ \E r \in ReqIds, u \in ConcActors, i \in IssueIds, b \in ConcBodies :
          UpdateRead(r, u, i, b)
    \/ \E r \in ReqIds : UpdateWrite(r)
    \/ \E r \in ReqIds : UpdateFinish(r)

SpecConc == InitConc /\ [][NextConc]_vars

-----------------------------------------------------------------------------
(* The clock, and the issue routes over time (SpecSLA) *)

HalfHourMs == HourMs \div 2

Tick ==
    /\ now < MaxHours * HourMs
    /\ now' = now + HalfHourMs
    /\ UNCHANGED <<issues, nextId, cache, resp, req, comments, attachments, meetings>>

SlaCreateBodies ==
    {CreateBody(TitleRoad, "Public Works", 23, p) : p \in Opt({"CRITICAL", "HIGH"})}

SlaUpdateBodies ==
    {[EmptyPatch EXCEPT !.status = Some("RESOLVED")],
     [EmptyPatch EXCEPT !.status = Some("IN_PROGRESS")]}

NextSLA ==
    \/ Tick
    \/ \E b \in SlaCreateBodies : CreateIssue(Admin, b)
    \/ \E i \in IssueIds, b \in SlaUpdateBodies : UpdateIssue(Admin, i, b)
    \/ \E i \in IssueIds : GetIssue(Admin, i)

SpecSLA == Init /\ [][NextSLA]_vars

-----------------------------------------------------------------------------
(* calculateSLA applied to drawn inputs (SpecCalc): an issue of any priority and
   status, read at any half hour after its creation *)

StatusPatch(st) == [EmptyPatch EXCEPT !.status = Some(st)]

\* The issue the admin created at time 0 with priority p, moved to status st.
CalcRow(p, st) ==
    LET fresh == NewIssue(Admin, CreateBody(TitleRoad, "Public Works", 23, Some(p)), 1)
    IN  IF st = "PENDING" THEN fresh
        ELSE issueUpdate(fresh, StatusPatch(st), lifecycleUpdates(StatusPatch(st), fresh))

InitCalc ==
    /\ now = 0
    /\ issues \in {(1 :> CalcRow(p, st)) : p \in Priority, st \in IssueStatus}
    /\ nextId = 2
    /\ cache = <<>>
    /\ resp = NoResp
    /\ req = <<>>
    /\ comments = <<>>
    /\ attachments = <<>>
    /\ meetings = <<>>

Elapse(k) ==
    /\ now = 0
    /\ resp = NoResp
    /\ now' = k * HalfHourMs
    /\ UNCHANGED <<issues, nextId, cache, resp, req, comments, attachments, meetings>>

NextCalc ==
    \/ \E k \in 1..MaxHalfHours : Elapse(k)
    \/ GetIssue(Admin, 1)

SpecCalc == InitCalc /\ [][NextCalc]_vars

-----------------------------------------------------------------------------
(* DELETE /api/issues/:id *)

\* authorize letting every authenticated user through.
authorizeAnyRole(roles, user) == user.role \in Role

\* authorize(...roles), the middleware in front of the handler.
authorize(roles, user) == user.role \in roles

\* Dependent rows whose foreign key is left as it is when the issue goes.
onDeleteNoAction(rows, id) == rows

\* FOREIGN KEY ("issueId") REFERENCES "issues"("id") ON DELETE CASCADE: the rows
\* of a dependent table that are left when issue id is deleted.
onDeleteCascade(rows, id) == SelectSeq(rows, LAMBDA r : r.issueId # id)

DeleteIssueWith(user, id, up, db) ==
    /\ IF ~authorize({"ADMIN"}, user)
       THEN /\ resp' = Response("delete", user, id, <<>>, <<>>, 403, <<>>, <<>>)
            /\ UNCHANGED <<issues, cache, comments, attachments>>
       ELSE IF id \notin DOMAIN issues
       THEN /\ resp' = Response("delete", user, id, <<>>, <<>>, 404, <<>>, <<>>)
            /\ UNCHANGED <<issues, cache, comments, attachments>>
       ELSE IF prismaCall(db) = "thrown"
       THEN /\ resp' = ServerError("delete", user, id, <<>>, <<issues[id]>>)
            /\ UNCHANGED <<issues, cache, comments, attachments>>
       ELSE LET del == cacheCall(up)
            IN  /\ issues' = IF db THEN [i \in DOMAIN issues \ {id} |-> issues[i]] ELSE issues
                /\ comments' = IF db THEN onDeleteCascade(comments, id) ELSE comments
                /\ attachments' = IF db THEN onDeleteCascade(attachments, id) ELSE attachments
                /\ cache' = IF up THEN cacheDel(cache, IssuesStar) ELSE cache
                /\ resp' = IF del = "thrown"
                           THEN ServerError("delete", user, id, <<>>, <<issues[id]>>)
                           ELSE [Response("delete", user, id, <<>>, <<issues[id]>>, 200, <<>>,
                                          <<[type |-> "issue-deleted", id |-> id]>>)
                                    EXCEPT !.cacheErrors = Logged(<<del>>)]
    /\ UNCHANGED <<nextId, now, req, meetings>>

DeleteIssue(user, id) == DeleteIssueWith(user, id, TRUE, TRUE)

-----------------------------------------------------------------------------
(* POST /api/issues/:id/comments *)

WhitespaceChars == {" ", "\t", "\n"}

RECURSIVE trimStart(_)
trimStart(text) ==
    IF text = <<>> \/ Head(text) \notin WhitespaceChars THEN text
    ELSE trimStart(Tail(text))

RECURSIVE trimEnd(_)
trimEnd(text) ==
    IF text = <<>> \/ text[Len(text)] \notin WhitespaceChars THEN text
    ELSE trimEnd(SubSeq(text, 1, Len(text) - 1))

trim(text) == trimEnd(trimStart(text))

\* !content || content.trim().length === 0
ContentMissing(content) ==
    \/ ~IsSome(content)
    \/ Len(Val(content)) = 0
    \/ Len(trim(Val(content))) = 0

AddComment(user, id, content) ==
    /\ IF ContentMissing(content)
       THEN /\ resp' = Response("comment", user, id, <<content>>, <<>>, 400, <<>>, <<>>)
            /\ UNCHANGED comments
       ELSE IF id \notin DOMAIN issues
       THEN /\ resp' = Response("comment", user, id, <<content>>, <<>>, 404, <<>>, <<>>)
            /\ UNCHANGED comments
       ELSE IF AccessDenied(user, issues[id])
       THEN /\ resp' = Response("comment", user, id, <<content>>, <<issues[id]>>, 403, <<>>, <<>>)
            /\ UNCHANGED comments
       ELSE LET comment == [content |-> Val(content), issueId |-> id, userId |-> user.id]
            IN  /\ Len(comments) < MaxComments
                /\ comments' = Append(comments, comment)
                /\ resp' = Response("comment", user, id, <<content>>, <<issues[id]>>, 201,
                                    <<comment>>, <<[type |-> "comment-added", id |-> id]>>)
    /\ UNCHANGED <<issues, nextId, now, cache, req, attachments, meetings>>

-----------------------------------------------------------------------------
(* POST /api/upload/issue/:issueId *)

UploadFiles(user, id, files) ==
    /\ IF Len(files) = 0
       THEN /\ resp' = Response("upload", user, id, <<files>>, <<>>, 400, <<>>, <<>>)
            /\ UNCHANGED attachments
       ELSE IF id \notin DOMAIN issues
       THEN /\ resp' = Response("upload", user, id, <<files>>, <<>>, 404, <<>>, <<>>)
            /\ UNCHANGED attachments
       ELSE IF AccessDenied(user, issues[id])
       THEN /\ resp' = Response("upload", user, id, <<files>>, <<issues[id]>>, 403, <<>>, <<>>)
            /\ UNCHANGED attachments
       ELSE LET created == [k \in 1..Len(files) |-> [filename |-> files[k], issueId |-> id]]
            IN  /\ Len(attachments) + Len(files) <= MaxAttachments
                /\ attachments' = attachments \o created
                /\ resp' = Response("upload", user, id, <<files>>, <<issues[id]>>, 201,
                                    created, <<>>)
    /\ UNCHANGED <<issues, nextId, now, cache, req, comments, meetings>>

-----------------------------------------------------------------------------
(* All the routes that write an issue or what hangs on it (SpecFull) *)

FullCreateBodies == {CreateBody(TitleRoad, d, 23, None) : d \in Departments}

FullUpdateBodies ==
    {[EmptyPatch EXCEPT !.status = Some(st)] : st \in {"IN_PROGRESS", "RESOLVED"}}
    \cup {[EmptyPatch EXCEPT !.assignedToId = Some("tm1")],
          [EmptyPatch EXCEPT !.lifecycle = Some(DeleteLifecycle)]}

Contents == {None, Some(<<>>), Some(<<" ", " ">>), Some(<<"o", "k">>)}

FileLists == {<<>>, <<"photo.jpg">>}

NextFull ==
    \/ \E u \in Actors, b \in FullCreateBodies : CreateIssue(u, b)
    \/ \E u \in Actors, i \in IssueIds, b \in FullUpdateBodies : UpdateIssue(u, i, b)
    \/ \E u \in Actors, i \in IssueIds : DeleteIssue(u, i)
    \/ \E u \in Actors, i \in IssueIds, c \in Contents : AddComment(u, i, c)
    \/ \E u \in Actors, i \in IssueIds, f \in FileLists : UploadFiles(u, i, f)

SpecFull == Init /\ [][NextFull]_vars

-----------------------------------------------------------------------------
(* The routes that use the cache, with Redis answering or not (SpecRedis) *)

RedisActors == {Admin, Head1}

RedisUpdateBodies == {[EmptyPatch EXCEPT !.status = Some("RESOLVED")]}

RedisQueries == {NoQuery, [NoQuery EXCEPT !.status = Some("PENDING")]}

NextRedis ==
    \/ \E b \in FullCreateBodies, up \in BOOLEAN : CreateIssueWith(Admin, b, up, TRUE)
    \/ \E i \in IssueIds, b \in RedisUpdateBodies, up \in BOOLEAN :
            UpdateIssueWith(Admin, i, b, up, TRUE)
    \/ \E i \in IssueIds, up \in BOOLEAN : DeleteIssueWith(Admin, i, up, TRUE)
    \/ \E u \in RedisActors, q \in RedisQueries, up \in BOOLEAN : ListIssuesWith(u, q, up)

SpecRedis == Init /\ [][NextRedis]_vars

-----------------------------------------------------------------------------
(* Properties of the handlers run one after the other (Spec) *)

ResolvePatch == [EmptyPatch EXCEPT !.status = Some("RESOLVED")]

HasRow(row, step, status) ==
    \E k \in 1..Len(row.lifecycle) :
        row.lifecycle[k] = [step |-> step, status |-> status]

NumRows(row, step) ==
    Cardinality({k \in 1..Len(row.lifecycle) : row.lifecycle[k].step = step})

UserById(uid) == CHOOSE u \in Users : u.id = uid

\* resp is the 200 answer to PUT /:id by user u on issue i with body b.
UpdatedOk(u, i, b) ==
    /\ resp.op = "update" /\ resp.actor = u.id /\ resp.id = i
    /\ resp.body = <<b>> /\ resp.code = 200

\* C1: two updateIssue(status=RESOLVED) calls in sequence by the same actor on an
\* issue that was not RESOLVED, with nothing in between: the second call answers
\* 200 and the issue has exactly one RESOLVED row more than before the first call.
C1_ResolveTwice ==
    [][\A u \in Actors, i \in IssueIds :
        ( /\ UpdatedOk(u, i, ResolvePatch)
          /\ resp.current[1].status # "RESOLVED"
          /\ UpdateIssue(u, i, ResolvePatch) )
        => ( /\ resp'.code = 200
             /\ NumRows(issues'[i], "RESOLVED") = NumRows(resp.current[1], "RESOLVED") + 1 )
      ]_vars

\* C1 witness: a RESOLVED update answered 200 on an issue that an earlier RESOLVED
\* update had resolved, and the issue still has its single RESOLVED row.
C1_Witness ==
    \E u \in Actors, i \in DOMAIN issues :
        /\ UpdatedOk(u, i, ResolvePatch)
        /\ resp.current[1].status = "RESOLVED"
        /\ NumRows(resp.current[1], "RESOLVED") = 1
        /\ NumRows(issues[i], "RESOLVED") = 1

\* resp is the 201 answer to POST / by user u that created issue i.
CreatedOk(u, i) ==
    /\ resp.op = "create" /\ resp.actor = u.id /\ resp.id = i /\ resp.code = 201

RowSet(lifecycle) == {lifecycle[k] : k \in 1..Len(lifecycle)}

\* The payload of resp is one issue, PENDING, with exactly the two creation rows.
FreshIssueReturned ==
    /\ resp'.code = 200
    /\ Len(resp'.data) = 1
    /\ resp'.data[1].status = "PENDING"
    /\ Len(resp'.data[1].lifecycle) = 2
    /\ RowSet(resp'.data[1].lifecycle) =
          {[step |-> "REPORTED", status |-> "COMPLETED"],
           [step |-> "ACKNOWLEDGED", status |-> "CURRENT"]}

\* C3 as stated: for every actor, createIssue followed immediately by getIssue of
\* the created issue by the same actor returns it, PENDING, with exactly the rows
\* REPORTED:COMPLETED and ACKNOWLEDGED:CURRENT.
C3_CreateThenGet_Original ==
    [][\A u \in Actors, i \in IssueIds :
        (CreatedOk(u, i) /\ GetIssue(u, i)) => FreshIssueReturned
      ]_vars

\* C3 amended: the round trip returns the fresh issue when the actor is an ADMIN,
\* or a DEPARTMENT_HEAD who created it in the own department; for a TEAM_MEMBER
\* (a new issue is unassigned) and for a DEPARTMENT_HEAD who created it in another
\* department, the getIssue is answered 403.
C3_CreateThenGet ==
    [][\A u \in Actors, i \in IssueIds :
        (CreatedOk(u, i) /\ GetIssue(u, i)) =>
            IF \/ u.role = "ADMIN"
               \/ u.role = "DEPARTMENT_HEAD" /\ resp.body[1].department = u.department
            THEN FreshIssueReturned
            ELSE resp'.code = 403 /\ resp'.data = <<>>
      ]_vars

\* C3 witness: a getIssue answered 200 with a PENDING issue that has the two
\* creation rows, to a DEPARTMENT_HEAD.
C3_Witness ==
    /\ resp.op = "get" /\ resp.code = 200
    /\ UserById(resp.actor).role = "DEPARTMENT_HEAD"
    /\ resp.data[1].status = "PENDING"
    /\ resp.data[1].lifecycle = InitialLifecycle
    /\ resp.data[1].sla = "3d left"

\* C4: an updateIssue by a TEAM_MEMBER whose body carries a priority is answered
\* 403 on every existing issue, assigned to the actor or not, and the priority of
\* the issue stays what it was.
C4_TeamMemberPriority ==
    ( /\ resp.op = "update"
      /\ UserById(resp.actor).role = "TEAM_MEMBER"
      /\ IsSome(resp.body[1].priority)
      /\ updateIssueSchema(resp.body[1])
      /\ resp.id \in DOMAIN issues )
    => ( /\ resp.code = 403
         /\ issues[resp.id].priority = resp.current[1].priority )

\* Some row of the lifecycle before position k is RESOLVED:COMPLETED.
ResolvedBefore(lifecycle, k) ==
    \E j \in 1..(k - 1) : lifecycle[j] = [step |-> "RESOLVED", status |-> "COMPLETED"]

\* C7: a CITIZEN_VERIFIED row is only ever appended to an issue that already has
\* a RESOLVED:COMPLETED row, and a request that appends CITIZEN_VERIFIED to an
\* issue without one is refused (400, InvalidTransitionError) and appends nothing.
C7_VerifyAfterResolve ==
    /\ \A i \in DOMAIN issues : \A k \in 1..Len(issues[i].lifecycle) :
          issues[i].lifecycle[k].step = "CITIZEN_VERIFIED"
              => ResolvedBefore(issues[i].lifecycle, k)
    /\ ( /\ resp.op = "update"
         /\ resp.body[1].lifecycle = Some(CitizenVerified)
         /\ resp.current # <<>>
         /\ ~HasRow(resp.current[1], "RESOLVED", "COMPLETED") )
       => ( /\ resp.code \in {400, 403}
            /\ issues[resp.id].lifecycle = resp.current[1].lifecycle )

\* C8: an update to CLOSED is accepted only from RESOLVED (from PENDING or
\* IN_PROGRESS it is refused and the issue is left as it was), so every CLOSED
\* issue has a RESOLVED:COMPLETED row.
C8_CloseOnlyResolved ==
    /\ \A i \in DOMAIN issues :
          issues[i].status = "CLOSED" => HasRow(issues[i], "RESOLVED", "COMPLETED")
    /\ ( /\ resp.op = "update"
         /\ resp.body[1].status = Some("CLOSED")
         /\ resp.current # <<>>
         /\ resp.current[1].status \in {"PENDING", "IN_PROGRESS"} )
       => ( /\ resp.code # 200
            /\ issues[resp.id] = resp.current[1] )


-----------------------------------------------------------------------------
(* Properties of concurrent updates (SpecConc) *)

Started == {r \in ReqIds : req[r].pc # "idle"}

\* C2: when all the requests made are updateIssue(status=RESOLVED) calls on issue
\* 1 by callers allowed to update it, at least two of them, interleaved in any
\* order, and all have answered, then all answered 200 and the issue has exactly
\* one RESOLVED row.
C2_ConcurrentResolve ==
    ( /\ Cardinality(Started) >= 2
      /\ \A r \in Started :
            /\ req[r].pc = "done"
            /\ req[r].id = 1
            /\ req[r].body = <<ResolvePatch>>
            /\ ~AccessDenied(UserById(req[r].actor), issues[1]) )
    => ( /\ \A r \in Started : req[r].code = 200
         /\ NumRows(issues[1], "RESOLVED") = 1 )


-----------------------------------------------------------------------------
(* Properties of the list handler (SpecList) *)

\* scopeFilter of the Role Policy, on a returned item.
InScope(user, item) ==
    CASE user.role = "ADMIN" -> TRUE
      [] user.role = "DEPARTMENT_HEAD" -> item.department = user.department
      [] user.role = "TEAM_MEMBER" -> item.assignedToId = user.id

\* The filters the caller supplied, on a returned item.
FiltersHold(q, item) ==
    /\ (IsSome(q.status) => item.status = Val(q.status))
    /\ (IsSome(q.priority) => item.priority = Val(q.priority))
    /\ (IsSome(q.department) => item.department = Val(q.department))
    /\ (IsSome(q.assignedToId) => item.assignedToId = Val(q.assignedToId))
    /\ (IsSome(q.search) =>
            \/ Contains(item.title, Val(q.search))
            \/ Contains(item.description, Val(q.search))
            \/ (IsSome(item.address) /\ Contains(Val(item.address), Val(q.search))))

ListedOk == resp.op = "list" /\ resp.code = 200

\* C5: a listIssues by a DEPARTMENT_HEAD of department D that passes no department
\* filter returns only issues whose department is D.
C5_HeadSeesOwnDepartment ==
    ( /\ ListedOk
      /\ UserById(resp.actor).role = "DEPARTMENT_HEAD"
      /\ resp.body[1].department = None )
    => \A k \in 1..Len(resp.data) :
          resp.data[k].department = UserById(resp.actor).department

\* C5 witness: a DEPARTMENT_HEAD listed with no department filter, another
\* department has an issue, and the answer is the issue of the own department.
C5_Witness ==
    /\ ListedOk
    /\ UserById(resp.actor).role = "DEPARTMENT_HEAD"
    /\ resp.body[1].department = None
    /\ Len(resp.data) = 1
    /\ \E i \in DOMAIN issues : issues[i].department # UserById(resp.actor).department

\* C6: every issue listIssues returns satisfies the scope filter of the actor
\* and the filters the caller supplied, whatever the filters are.
C6_ScopeIntersectsFilters ==
    ListedOk =>
        \A k \in 1..Len(resp.data) :
            /\ InScope(UserById(resp.actor), resp.data[k])
            /\ FiltersHold(resp.body[1], resp.data[k])


-----------------------------------------------------------------------------
(* Properties of the SLA string (SpecSLA, SpecCalc) *)

\* getIssue by the admin answers 200 for issue i; sla is the SLA it returns.
GotSLA(i, sla) ==
    /\ GetIssue(Admin, i)
    /\ resp'.code = 200
    /\ resp'.data[1].sla = sla

\* Issue i was created CRITICAL and nothing has been done to it since.
UntouchedCritical(i) ==
    /\ i \in DOMAIN issues
    /\ issues[i].priority = "CRITICAL"
    /\ issues[i].lifecycle = InitialLifecycle

\* The scenario of C9, with `first` the SLA read when now equals createdAt.
CriticalScenario(first) ==
    \A i \in IssueIds :
        /\ (CreatedOk(Admin, i) /\ resp.body[1].priority = Some("CRITICAL"))
              => resp.data[1].status = "PENDING"
        /\ (GetIssue(Admin, i) /\ UntouchedCritical(i) /\ now = issues[i].createdAt)
              => GotSLA(i, first)
        /\ (GetIssue(Admin, i) /\ UntouchedCritical(i)
                /\ now = issues[i].createdAt + 5 * HourMs)
              => GotSLA(i, "Overdue")
        /\ (GetIssue(Admin, i) /\ UpdatedOk(Admin, i, ResolvePatch)
                /\ issues[i].priority = "CRITICAL")
              => GotSLA(i, "Closed")

\* C9 as stated: an issue created CRITICAL is PENDING with SLA "4h left" when now
\* equals createdAt, "Overdue" 5 hours after creation with no further action, and
\* "Closed" after updateIssue(status=RESOLVED).
C9_CriticalScenario_Original == [][CriticalScenario("4h left")]_vars

\* C9 amended: as stated, except that the SLA when now equals createdAt is
\* "0d left" (4 hours remain, more than 2, so they are rendered in whole days).
C9_CriticalScenario == [][CriticalScenario("0d left")]_vars

\* C9 witness: the admin read a CRITICAL, PENDING issue at its creation time and
\* got the SLA "0d left".
C9_Witness ==
    /\ resp.op = "get" /\ resp.code = 200
    /\ resp.data[1].priority = "CRITICAL"
    /\ resp.data[1].status = "PENDING"
    /\ resp.data[1].createdAt = now
    /\ resp.data[1].sla = "0d left"

Allowance == [CRITICAL |-> 4, HIGH |-> 24, MEDIUM |-> 72, LOW |-> 168]

MinuteMs == 1000 * 60

\* C10: for every priority and every PENDING or IN_PROGRESS issue, when the
\* minutes elapsed since createdAt are more than allowance(priority) hours, the
\* SLA getIssue returns is "Overdue".
C10_OverdueAfterAllowance ==
    ( /\ resp.op = "get" /\ resp.code = 200
      /\ resp.data[1].status \in {"PENDING", "IN_PROGRESS"}
      /\ (now - resp.data[1].createdAt) \div MinuteMs
            > Allowance[resp.data[1].priority] * 60 )
    => resp.data[1].sla = "Overdue"

-----------------------------------------------------------------------------
(* Properties of getIssue (Spec) *)

\* The stored issue the response returns, field by field.
ReturnsIssue(item, row) == \A f \in DOMAIN row : item[f] = row[f]

\* C11: getIssue(actor, id) answers 200 with the issue exactly when the issue
\* exists and lies in the actor's scope, 404 (NotFoundError) when no issue has
\* that id, and 403 (AuthorizationError) when the issue exists outside the scope.
C11_GetIssueOutcome ==
    resp.op = "get" =>
        LET actor == UserById(resp.actor)
            exists == resp.id \in DOMAIN issues
        IN  /\ (resp.code = 200) = (exists /\ InScope(actor, issues[resp.id]))
            /\ (resp.code = 200 => ReturnsIssue(resp.data[1], issues[resp.id]))
            /\ (~exists => resp.code = 404)
            /\ ((exists /\ ~InScope(actor, issues[resp.id])) => resp.code = 403)

\* C11 witness: a DEPARTMENT_HEAD asked for an existing issue of another
\* department and was answered 403.
C11_Witness ==
    /\ resp.op = "get" /\ resp.code = 403
    /\ UserById(resp.actor).role = "DEPARTMENT_HEAD"
    /\ resp.id \in DOMAIN issues
    /\ issues[resp.id].department # UserById(resp.actor).department

-----------------------------------------------------------------------------
(* Properties of updateIssue as a whole (Spec) *)

IssueFields == {"title", "description", "status", "priority", "assignedToId", "department"}

\* The fields of the issue a patch changes.
ChangedFields(b, row) == {f \in IssueFields : IsSome(b[f]) /\ Val(b[f]) # row[f]}

\* canMutate of the Role Policy.
CanMutate(user, row, f) ==
    CASE user.role = "ADMIN" -> TRUE
      [] user.role = "DEPARTMENT_HEAD" ->
            f \in {"status", "priority", "assignedToId"} /\ row.department = user.department
      [] user.role = "TEAM_MEMBER" ->
            f = "status" /\ row.assignedToId = user.id

\* C12: an updateIssue whose issue is absent or outside the actor's scope, or
\* whose patch changes a field the actor may not mutate, is rejected whole: the
\* issues and their lifecycle rows stay as they were and no event is emitted.
C12_UpdateAllOrNothing ==
    [][\A u \in Actors, i \in IssueIds, b \in UpdateBodies :
        ( /\ UpdateIssue(u, i, b)
          /\ \/ i \notin DOMAIN issues
             \/ ~InScope(u, issues[i])
             \/ \E f \in ChangedFields(b, issues[i]) : ~CanMutate(u, issues[i], f) )
        => ( /\ resp'.code # 200
             /\ issues' = issues
             /\ resp'.event = <<>> )
      ]_vars

-----------------------------------------------------------------------------
(* Properties of deleteIssue (SpecFull) *)

\* C13: deleteIssue succeeds only for an ADMIN; a deleteIssue by a
\* DEPARTMENT_HEAD or TEAM_MEMBER is denied, the issues with their comments,
\* attachments and lifecycle rows stay as they were, and no event is emitted.
C13_DeleteAdminOnly ==
    [][\A u \in Actors, i \in IssueIds :
        DeleteIssue(u, i) =>
            /\ (resp'.code = 200 => u.role = "ADMIN")
            /\ (u.role # "ADMIN" =>
                    /\ resp'.code = 403
                    /\ issues' = issues
                    /\ comments' = comments
                    /\ attachments' = attachments
                    /\ resp'.event = <<>>)
      ]_vars

\* C13 witness: a DEPARTMENT_HEAD was denied the delete of an issue of the own
\* department that has a comment and an attachment, and the issue is still there.
C13_Witness ==
    /\ resp.op = "delete" /\ resp.code = 403
    /\ UserById(resp.actor).role = "DEPARTMENT_HEAD"
    /\ resp.id \in DOMAIN issues
    /\ issues[resp.id].department = UserById(resp.actor).department
    /\ \E k \in 1..Len(comments) : comments[k].issueId = resp.id
    /\ \E k \in 1..Len(attachments) : attachments[k].issueId = resp.id

-----------------------------------------------------------------------------
(* Properties of the list cache (SpecList) *)

\* The request just handled was a successful create, update or delete.
MutatedOk ==
    /\ resp.op \in {"create", "update", "delete"}
    /\ resp.code \in {200, 201}

\* The cache key under which the list handler looks the query up.
QueryKey(user, q) ==
    LET pageNum == parseInt(IF IsSome(q.page) THEN Val(q.page) ELSE <<"1">>)
        limitNum == parseInt(IF IsSome(q.limit) THEN Val(q.limit) ELSE <<"1", "0">>)
    IN  cacheKey(whereClause(user, q), (pageNum - 1) * limitNum, limitNum)

\* C14: a listIssues that follows a successful createIssue, updateIssue or
\* deleteIssue, whatever its filters, is not answered from the cache: no entry
\* written before the mutation is still there for it.
C14_MutationInvalidatesLists ==
    [][\A u \in Actors, q \in Queries :
        (MutatedOk /\ querySchema(q) /\ ListIssues(u, q))
            => ~cacheHit(cache, QueryKey(u, q))
      ]_vars

-----------------------------------------------------------------------------
(* Properties of the handlers when the cache fails (SpecRedis) *)

\* The items are the stored issues the query selects for the user, with their SLA.
FromPersistence(user, q, data) ==
    /\ {data[k].id : k \in 1..Len(data)}
          = {i \in DOMAIN issues : Matches(issues[i], whereClause(user, q))}
    /\ \A k \in 1..Len(data) : data[k] = WithSLA(issues[data[k].id])

\* C15: with the cache failing during the request, a createIssue, updateIssue or
\* deleteIssue whose persistence write succeeds still answers success and the
\* stored state is the mutated one, and a listIssues answers from persistence.
C15_CacheFailureSwallowed ==
    [][ /\ \A b \in FullCreateBodies :
            CreateIssueWith(Admin, b, FALSE, TRUE)
                => /\ resp'.code = 201
                   /\ nextId \in DOMAIN issues'
                   /\ issues'[nextId] = NewIssue(Admin, b, nextId)
        /\ \A i \in IssueIds, b \in RedisUpdateBodies :
            (UpdateIssueWith(Admin, i, b, FALSE, TRUE) /\ i \in DOMAIN issues)
                => /\ resp'.code = 200
                   /\ issues'[i] = issueUpdate(issues[i], b, lifecycleUpdates(b, issues[i]))
        /\ \A i \in IssueIds :
            (DeleteIssueWith(Admin, i, FALSE, TRUE) /\ i \in DOMAIN issues)
                => /\ resp'.code = 200
                   /\ i \notin DOMAIN issues'
        /\ \A u \in RedisActors, q \in RedisQueries :
            ListIssuesWith(u, q, FALSE)
                => /\ resp'.code = 200
                   /\ FromPersistence(u, q, resp'.data)
      ]_vars

\* C15 witness: a list was answered 200 from persistence with the cache read and
\* write both failing, while the cache holds a live entry for the same query
\* whose content differs from the answer.
C15_Witness ==
    /\ resp.op = "list" /\ resp.code = 200
    /\ resp.cacheErrors = 2
    /\ LET key == QueryKey(UserById(resp.actor), resp.body[1])
       IN  /\ cacheHit(cache, key)
           /\ cache[key].value.issues # resp.data

-----------------------------------------------------------------------------
(* Properties of addComment (SpecFull) *)

EmptyContent(c) == ~IsSome(c) \/ Val(c) = <<>>

\* C16: addComment creates a comment and emits comment-added only when the
\* content is non-empty, the issue exists and the issue is in the actor's scope;
\* with empty content, an absent issue or an issue outside the scope it fails,
\* no comment is created and no event is emitted.
C16_AddCommentGuards ==
    [][\A u \in Actors, i \in IssueIds, c \in Contents :
        AddComment(u, i, c) =>
            /\ (resp'.code = 201) =
                  (/\ i \in DOMAIN issues
                   /\ Len(comments') = Len(comments) + 1
                   /\ resp'.event = <<[type |-> "comment-added", id |-> i]>>)
            /\ (resp'.code = 201 =>
                    /\ ~EmptyContent(c)
                    /\ InScope(u, issues[i])
                    /\ comments' = Append(comments,
                                          [content |-> Val(c), issueId |-> i, userId |-> u.id]))
            /\ ((EmptyContent(c) \/ i \notin DOMAIN issues \/ ~InScope(u, issues[i]))
                    => /\ resp'.code \in {400, 403, 404}
                       /\ comments' = comments
                       /\ resp'.event = <<>>)
      ]_vars

\* C16 witness: a TEAM_MEMBER commented on the issue assigned to them: the
\* comment is stored and comment-added was emitted.
C16_Witness ==
    /\ resp.op = "comment" /\ resp.code = 201
    /\ UserById(resp.actor).role = "TEAM_MEMBER"
    /\ resp.id \in DOMAIN issues
    /\ issues[resp.id].assignedToId = resp.actor
    /\ Len(comments) = 1
    /\ comments[1].issueId = resp.id
    /\ comments[1].userId = resp.actor
    /\ resp.event = <<[type |-> "comment-added", id |-> resp.id]>>

-----------------------------------------------------------------------------
(* Invariants of the issues over sequences of updates (Spec) *)

ResolvedCompleted(row) ==
    {k \in 1..Len(row.lifecycle) :
        row.lifecycle[k] = [step |-> "RESOLVED", status |-> "COMPLETED"]}

\* C17: in every reachable state, whatever updates came before (a resolved issue
\* moved back to PENDING or IN_PROGRESS, or to CLOSED, and resolved again
\* included), an issue has at most one RESOLVED row marked COMPLETED.
C17_OneResolvedRow ==
    \A i \in DOMAIN issues : Cardinality(ResolvedCompleted(issues[i])) <= 1

StatusRank == [PENDING |-> 1, IN_PROGRESS |-> 2, RESOLVED |-> 3, CLOSED |-> 4]

\* C18: the status of an issue only moves forward in the order PENDING,
\* IN_PROGRESS, RESOLVED, CLOSED: no step takes an issue to an earlier status.
C18_StatusMonotonic ==
    [][\A i \in DOMAIN issues :
        i \in DOMAIN issues' =>
            StatusRank[issues'[i].status] >= StatusRank[issues[i].status]
      ]_vars

\* C19: in every state reached through createIssue and updateIssue, an issue
\* whose status is IN_PROGRESS has an assignee.
C19_InProgressAssigned ==
    \A i \in DOMAIN issues :
        issues[i].status = "IN_PROGRESS" => issues[i].assignedToId # NULL

-----------------------------------------------------------------------------
(* Lifecycle history (SpecFull) *)

\* The rows of `old` are all in `new`, at the same places with the same steps,
\* and none that was COMPLETED has another status.
Extends(new, old) ==
    /\ Len(new) >= Len(old)
    /\ \A k \in 1..Len(old) :
          /\ new[k].step = old[k].step
          /\ (old[k].status = "COMPLETED" => new[k].status = "COMPLETED")

\* C20: across every createIssue, updateIssue, addComment (and upload), the
\* lifecycle rows an issue had are still there afterwards with the same steps in
\* the same order, no COMPLETED row has changed to CURRENT or PENDING, and rows
\* disappear only with the issue itself.
C20_LifecycleAppendOnly ==
    [][\A i \in DOMAIN issues :
        i \in DOMAIN issues' => Extends(issues'[i].lifecycle, issues[i].lifecycle)
      ]_vars

-----------------------------------------------------------------------------
(* Status and lifecycle together (SpecFull, Spec) *)

\* C21: in every state reached through createIssue and updateIssue, an issue
\* whose status is RESOLVED has a RESOLVED lifecycle row marked COMPLETED.
C21_ResolvedHasRow ==
    \A i \in DOMAIN issues :
        issues[i].status = "RESOLVED" => HasRow(issues[i], "RESOLVED", "COMPLETED")

AssignedCompleted == [step |-> "ASSIGNED", status |-> "COMPLETED"]

\* Bodies that set the assignee; one carries a nested write on the lifecycle
\* relation beside it.
AssignBodies ==
    {[EmptyPatch EXCEPT !.assignedToId = Some("tm1")],
     [EmptyPatch EXCEPT !.assignedToId = Some("tm2")],
     [EmptyPatch EXCEPT !.assignedToId = Some("tm1"), !.title = Some(TitleLamp)],
     [EmptyPatch EXCEPT !.assignedToId = Some("tm1"),
                        !.lifecycle = Some([create |-> <<AssignedCompleted>>,
                                            deleteMany |-> FALSE])],
     [EmptyPatch EXCEPT !.status = Some("IN_PROGRESS")]}

NextAssign ==
    \/ \E u \in Actors, b \in CreateBodies : CreateIssue(u, b)
    \/ \E u \in Actors, i \in IssueIds, b \in AssignBodies : UpdateIssue(u, i, b)

SpecAssign == Init /\ [][NextAssign]_vars

\* C22: an accepted updateIssue whose patch sets assignedTo and carries no
\* status appends exactly one ASSIGNED:COMPLETED row and leaves the status as it
\* was when the value differs from the current assignee (null or another user),
\* and appends no ASSIGNED row when the value is the current assignee.
C22_AssignmentAppendsOnce ==
    ( /\ resp.op = "update"
      /\ resp.code = 200
      /\ IsSome(resp.body[1].assignedToId)
      /\ ~IsSome(resp.body[1].status) )
    => LET before == resp.current[1]
           after == issues[resp.id]
       IN  IF Val(resp.body[1].assignedToId) # before.assignedToId
           THEN /\ after.lifecycle = Append(before.lifecycle, AssignedCompleted)
                /\ after.status = before.status
                /\ after.assignedToId = Val(resp.body[1].assignedToId)
           ELSE NumRows(after, "ASSIGNED") <= NumRows(before, "ASSIGNED")

\* C23: no updateIssue by a TEAM_MEMBER changes the assignedTo or the department
\* of an issue.
C23_TeamMemberKeepsAssignment ==
    ( /\ resp.op = "update"
      /\ UserById(resp.actor).role = "TEAM_MEMBER"
      /\ resp.current # <<>>
      /\ resp.id \in DOMAIN issues )
    => ( /\ issues[resp.id].assignedToId = resp.current[1].assignedToId
         /\ issues[resp.id].department = resp.current[1].department )

-----------------------------------------------------------------------------
(* Dependent rows (SpecFull) *)

\* The rows of a dependent table that reference issue id.
RowsOf(rows, id) == {k \in 1..Len(rows) : rows[k].issueId = id}

-----------------------------------------------------------------------------
(* Mutations against a database that may reject the write (SpecFail) *)

FailUpdateBodies ==
    {[EmptyPatch EXCEPT !.status = Some("IN_PROGRESS")],
     [EmptyPatch EXCEPT !.status = Some("RESOLVED")],
     [EmptyPatch EXCEPT !.assignedToId = Some("tm1")]}

NextFail ==
    \E u \in Actors, db \in BOOLEAN :
        \/ \E b \in CreateBodies : CreateIssueWith(u, b, TRUE, db)
        \/ \E i \in IssueIds, b \in FailUpdateBodies : UpdateIssueWith(u, i, b, TRUE, db)
        \/ \E i \in IssueIds : DeleteIssueWith(u, i, TRUE, db)

SpecFail == Init /\ [][NextFail]_vars

\* The event each mutation emits.
EventOf == [create |-> "issue-created", update |-> "issue-updated", delete |-> "issue-deleted"]

\* The step performed the write the response of the step speaks of.
Persisted ==
    CASE resp'.op = "create" -> /\ resp'.id \in DOMAIN issues' \ DOMAIN issues
                                /\ issues'[resp'.id] = resp'.data[1]
      [] resp'.op = "update" -> /\ resp'.id \in DOMAIN issues'
                                /\ issues'[resp'.id] = resp'.data[1]
      [] resp'.op = "delete" -> resp'.id \in DOMAIN issues \ DOMAIN issues'
      [] OTHER -> FALSE

\* C25: an issue-created, issue-updated or issue-deleted event is emitted only
\* by a step whose write was performed, a successful mutation emits exactly one
\* event, of its own kind, and a step whose write is rejected answers without an
\* event and leaves the tables as they were.
EventsFollowPersistence ==
    /\ resp'.event # <<>> => /\ Persisted
                             /\ resp'.code \in {200, 201}
    /\ (resp'.op \in DOMAIN EventOf /\ resp'.code \in {200, 201})
          => /\ Len(resp'.event) = 1
             /\ resp'.event[1].type = EventOf[resp'.op]
             /\ resp'.event[1].id = resp'.id
             /\ Persisted
    /\ resp'.code = 500 => /\ resp'.event = <<>>
                           /\ UNCHANGED <<issues, nextId, comments, attachments>>

C25_EventsFollowPersistence == [][EventsFollowPersistence]_vars

\* C25 witness: the update of an existing issue was rejected by the database;
\* the row is the one the handler read and no event went out.
C25_Witness ==
    /\ resp.op = "update" /\ resp.code = 500
    /\ resp.event = <<>>
    /\ resp.id \in DOMAIN issues
    /\ issues[resp.id] = resp.current[1]

-----------------------------------------------------------------------------
(* GET /api/analytics/dashboard (SpecDash) *)

\* `analytics:dashboard:${role}:${department || 'all'}`
dashboardKey(user) ==
    <<"analytics:dashboard:", user.role,
      IF user.department # NULL /\ user.department # "" THEN user.department ELSE "all">>

\* The where clause of the counts.
dashboardWhere(user) ==
    IF user.role = "DEPARTMENT_HEAD" /\ user.department # NULL /\ user.department # ""
    THEN [NoWhere EXCEPT !.department = Some(user.department)]
    ELSE IF user.role = "TEAM_MEMBER"
    THEN [NoWhere EXCEPT !.assignedToId = Some(user.id)]
    ELSE NoWhere

\* prisma.issue.count({ where })
count(where) == Cardinality({i \in DOMAIN issues : Matches(issues[i], where)})

\* Math.round((a / b) * 100) for 0 <= a <= b, b > 0.
RoundPercent(a, b) == (200 * a + b) \div (2 * b)

\* The six counts and the two rates, computed from the table.
dashboardData(where) ==
    LET totalIssues == count(where)
        resolvedIssues == count([where EXCEPT !.status = Some("RESOLVED")])
        overdueIssues ==
            Cardinality({i \in DOMAIN issues :
                /\ Matches(issues[i], where)
                /\ issues[i].status \in {"PENDING", "IN_PROGRESS"}
                /\ issues[i].createdAt < now - 24 * HourMs})
    IN  [totalIssues |-> totalIssues,
         pendingIssues |-> count([where EXCEPT !.status = Some("PENDING")]),
         inProgressIssues |-> count([where EXCEPT !.status = Some("IN_PROGRESS")]),
         resolvedIssues |-> resolvedIssues,
         criticalIssues |-> count([where EXCEPT !.priority = Some("CRITICAL")]),
         overdueIssues |-> overdueIssues,
         resolutionRate |-> IF totalIssues > 0
                            THEN RoundPercent(resolvedIssues, totalIssues) ELSE 0,
         slaCompliance |-> IF totalIssues > 0
                           THEN RoundPercent(totalIssues - overdueIssues, totalIssues)
                           ELSE 100]

Dashboard(user) ==
    /\ LET key == dashboardKey(user)
       IN  IF cacheHit(cache, key)
           THEN /\ resp' = Response("dashboard", user, 0, <<>>, <<>>, 200,
                                    <<cache[key].value>>, <<>>)
                /\ UNCHANGED cache
           ELSE LET data == dashboardData(dashboardWhere(user))
                IN  /\ cache' = cacheSet(cache, key, data, 300)
                    /\ resp' = Response("dashboard", user, 0, <<>>, <<>>, 200,
                                        <<data>>, <<>>)
    /\ UNCHANGED <<issues, nextId, now, req, comments, attachments, meetings>>

\* A hundred seconds pass.
DashTick ==
    /\ now < MaxDashTicks * 100 * 1000
    /\ now' = now + 100 * 1000
    /\ UNCHANGED <<issues, nextId, cache, resp, req, comments, attachments, meetings>>

AssignPatch(uid, st) ==
    [EmptyPatch EXCEPT !.assignedToId = Some(uid), !.status = Some(st)]

AssignedTo(id, title, uid, st) ==
    LET fresh == NewIssue(Admin, CreateBody(title, "Public Works", 23, None), id)
    IN  issueUpdate(fresh, AssignPatch(uid, st), lifecycleUpdates(AssignPatch(uid, st), fresh))

\* The table the dashboards read: in Public Works, two issues of tm1 and one of tm3.
DashRows ==
    (1 :> AssignedTo(1, TitleRoad, "tm1", "IN_PROGRESS"))
    @@ (2 :> AssignedTo(2, TitleLamp, "tm1", "RESOLVED"))
    @@ (3 :> AssignedTo(3, TitleRoad, "tm3", "IN_PROGRESS"))

DashActors == {Admin, Head1, Tm1, Tm3}

InitDash ==
    /\ now = 0
    /\ issues = DashRows
    /\ nextId = 4
    /\ cache = <<>>
    /\ resp = NoResp
    /\ req = <<>>
    /\ comments = <<>>
    /\ attachments = <<>>
    /\ meetings = <<>>

NextDash ==
    \/ \E u \in DashActors : Dashboard(u)
    \/ DashTick

SpecDash == InitDash /\ [][NextDash]_vars

\* C26: the dashboard a request is answered with holds the counts of the
\* requesting actor's own scope (the table does not change in SpecDash, so a
\* cached answer of the same scope is as good as a fresh one).
C26_DashboardPerActor ==
    (resp.op = "dashboard" /\ resp.code = 200)
        => resp.data[1] = dashboardData(dashboardWhere(UserById(resp.actor)))

-----------------------------------------------------------------------------
(* The permission check and the write of a PUT (SpecConc) *)

\* Request r performs its prisma.issue.update in this step.
Writes(r) == req[r].pc = "update" /\ req'[r].pc = "del"

\* C27: whenever the update of a TEAM_MEMBER is written, the issue is assigned
\* to that team member in the table the write meets.
C27_WriteWhileAssigned ==
    [][\A r \in ReqIds :
          (Writes(r) /\ UserById(req[r].actor).role = "TEAM_MEMBER")
              => issues[req[r].id].assignedToId = req[r].actor]_vars

-----------------------------------------------------------------------------
(* The list and the detail of an issue, for every kind of actor (SpecScope) *)

ScopeActors == {Admin, Head1, Head0, Tm1}

NextScope ==
    \/ \E i \in DOMAIN issues, b \in ListUpdateBodies : UpdateIssue(Admin, i, b)
    \/ \E u \in ScopeActors : ListIssues(u, NoQuery)
    \/ \E u \in ScopeActors, i \in DOMAIN issues : GetIssue(u, i)

SpecScope == InitList /\ [][NextScope]_vars

\* Issue i is among the rows findMany returns for the actor's list request
\* without filters.
Listed(user, i) == i \in DOMAIN issues /\ Matches(issues[i], whereClause(user, NoQuery))

\* C28: getIssue on an existing issue is allowed exactly when the issue is in
\* the actor's unfiltered list read from the table.
C28_ListAgreesWithDetail ==
    (resp.op = "get" /\ resp.id \in DOMAIN issues)
        => (resp.code = 200 <=> Listed(UserById(resp.actor), resp.id))

-----------------------------------------------------------------------------
(* GET /api/issues, await by await, beside the mutations (SpecRace) *)

\* The parts of a list request that follow from the actor and the query.
ListPlan(user, q) ==
    LET pageNum == parseInt(IF IsSome(q.page) THEN Val(q.page) ELSE <<"1">>)
        limitNum == parseInt(IF IsSome(q.limit) THEN Val(q.limit) ELSE <<"1", "0">>)
        skip == (pageNum - 1) * limitNum
        where == whereClause(user, q)
    IN  [pageNum |-> pageNum, limitNum |-> limitNum, skip |-> skip, where |-> where,
         key |-> cacheKey(where, skip, limitNum)]

\* validate, the where clause and `await cache.get(cacheKey)`.
ListGet(r, user, q) ==
    /\ req[r].pc = "idle"
    /\ LET s == [IdleReq EXCEPT !.actor = user.id, !.body = <<q>>]
           key == ListPlan(user, q).key
       IN  IF ~querySchema(q)
           THEN req' = [req EXCEPT ![r] = [s EXCEPT !.pc = "done", !.code = 400]]
           ELSE IF cacheHit(cache, key)
           THEN req' = [req EXCEPT ![r] =
                          [s EXCEPT !.pc = "done", !.code = 200,
                                    !.data = <<cache[key].value>>]]
           ELSE req' = [req EXCEPT ![r] = [s EXCEPT !.pc = "find"]]
    /\ UNCHANGED <<issues, nextId, now, cache, resp, comments, attachments, meetings>>

\* `await Promise.all([findMany, count])`, then the SLA of each row.
ListFind(r) ==
    /\ req[r].pc = "find"
    /\ LET plan == ListPlan(UserById(req[r].actor), req[r].body[1])
           found == {i \in DOMAIN issues : Matches(issues[i], plan.where)}
           total == Cardinality(found)
           pagination == [page |-> plan.pageNum, limit |-> plan.limitNum,
                          total |-> total, pages |-> Ceil(total, plan.limitNum)]
       IN  \E ord \in Orders(found) :
              LET ids == Page(ord, plan.skip, plan.limitNum)
                  issuesWithSLA == [k \in 1..Len(ids) |-> WithSLA(issues[ids[k]])]
              IN  req' = [req EXCEPT ![r].pc = "set",
                                     ![r].data = <<[issues |-> issuesWithSLA,
                                                    pagination |-> pagination]>>]
    /\ UNCHANGED <<issues, nextId, now, cache, resp, comments, attachments, meetings>>

\* `await cache.set(cacheKey, { issues: issuesWithSLA, pagination }, 300)`, res.json.
ListCacheSet(r) ==
    /\ req[r].pc = "set"
    /\ LET key == ListPlan(UserById(req[r].actor), req[r].body[1]).key
       IN  /\ Cardinality(DOMAIN cache \ {key}) < MaxCached
           /\ cache' = cacheSet(cache, key, req[r].data[1], 300)
    /\ req' = [req EXCEPT ![r].pc = "done", ![r].code = 200]
    /\ UNCHANGED <<issues, nextId, now, resp, comments, attachments, meetings>>

RaceQueries == {NoQuery, [NoQuery EXCEPT !.status = Some("PENDING")]}

InitRace ==
    /\ now = 0
    /\ issues = (1 :> FreshRow)
    /\ nextId = 2
    /\ cache = <<>>
    /\ resp = NoResp
    /\ req = [r \in ReqIds |-> IdleReq]
    /\ comments = <<>>
    /\ attachments = <<>>
    /\ meetings = <<>>

NextRace ==
    \/ \E r \in ReqIds, u \in Actors, q \in RaceQueries : ListGet(r, u, q)
    \/ \E r \in ReqIds : ListFind(r)
    \/ \E r \in ReqIds : ListCacheSet(r)
    \/ \E i \in IssueIds, b \in ListUpdateBodies : UpdateIssue(Admin, i, b)

SpecRace == InitRace /\ [][NextRace]_vars

\* The rows the table holds now for a list request, with their SLA.
RowsNow(user, q) ==
    {WithSLA(issues[i]) : i \in {j \in DOMAIN issues : Matches(issues[j], whereClause(user, q))}}

\* Request r performs its cache.set in this step.
CacheWrites(r) == req[r].pc = "set" /\ req'[r].pc = "done"

\* C29: a list request writes to the cache the rows as the table holds them at
\* the write: no mutation completed between its read and its cache write, whose
\* effect the cached result would lack.
C29_NoStaleCacheWrite ==
    [][\A r \in ReqIds :
          CacheWrites(r) =>
              LET value == req[r].data[1].issues
              IN  {value[k] : k \in 1..Len(value)}
                     = RowsNow(UserById(req[r].actor), req[r].body[1])]_vars

-----------------------------------------------------------------------------
(* /api/meetings (SpecMeet) *)

MeetingType == {"TEAM", "DEPARTMENT", "PROJECT", "REVIEW"}
MeetingStatus == {"SCHEDULED", "IN_PROGRESS", "COMPLETED", "CANCELLED"}

MeetingIds == 1..MaxMeetings

\* Date-time texts are written <<"T", h, h>>: the hour of one fixed day, the
\* rest of the ISO text being the same in all of them.
\* z.string().datetime(): the text has the form of a date-time.
isDatetime(text) ==
    /\ Len(text) = 3
    /\ text[1] = "T"
    /\ \A j \in {2, 3} : \E k \in 1..Len(DigitChars) : DigitChars[k] = text[j]
    /\ parseInt(<<text[2], text[3]>>) < 24

\* new Date(text) of a date-time text, as milliseconds.
newDate(text) == parseInt(<<text[2], text[3]>>) * HourMs

createMeetingSchema(b) ==
    /\ Len(b.title) >= 3
    /\ isDatetime(b.startTime)
    /\ isDatetime(b.endTime)
    /\ (IsSome(b.type) => Val(b.type) \in MeetingType)

updateMeetingSchema(b) ==
    /\ (IsSome(b.title) => Len(Val(b.title)) >= 3)
    /\ (IsSome(b.startTime) => isDatetime(Val(b.startTime)))
    /\ (IsSome(b.endTime) => isDatetime(Val(b.endTime)))
    /\ (IsSome(b.status) => Val(b.status) \in MeetingStatus)

\* POST /api/meetings
CreateMeeting(user, b) ==
    /\ IF ~createMeetingSchema(b)
       THEN /\ resp' = Response("meeting-create", user, 0, <<b>>, <<>>, 400, <<>>, <<>>)
            /\ UNCHANGED meetings
       ELSE IF newDate(b.endTime) <= newDate(b.startTime)
       THEN /\ resp' = Response("meeting-create", user, 0, <<b>>, <<>>, 400, <<>>, <<>>)
            /\ UNCHANGED meetings
       ELSE IF \E a \in DOMAIN b.attendeeIds : ~\E u \in Users : u.id = b.attendeeIds[a]
       THEN /\ resp' = Response("meeting-create", user, 0, <<b>>, <<>>, 400, <<>>, <<>>)
            /\ UNCHANGED meetings
       ELSE \E id \in MeetingIds \ DOMAIN meetings :
              LET meeting == [id |-> id,
                              title |-> b.title,
                              startTime |-> newDate(b.startTime),
                              endTime |-> newDate(b.endTime),
                              type |-> IF IsSome(b.type) THEN Val(b.type) ELSE "TEAM",
                              status |-> "SCHEDULED",
                              organizerId |-> user.id,
                              attendees |-> [a \in DOMAIN b.attendeeIds |->
                                                [userId |-> b.attendeeIds[a],
                                                 status |-> "INVITED"]]]
              IN  /\ meetings' = (id :> meeting) @@ meetings
                  /\ resp' = Response("meeting-create", user, id, <<b>>, <<>>, 201,
                                      <<meeting>>,
                                      <<[type |-> "meeting-created", id |-> id]>>)
    /\ UNCHANGED <<issues, nextId, now, cache, req, comments, attachments>>

\* prisma.meeting.update: the body spread, the times converted when present.
meetingUpdate(row, updates) ==
    [row EXCEPT
        !.title = Field(updates, "title", @),
        !.status = Field(updates, "status", @),
        !.startTime = IF IsSome(updates.startTime) /\ Len(Val(updates.startTime)) > 0
                      THEN newDate(Val(updates.startTime)) ELSE @,
        !.endTime = IF IsSome(updates.endTime) /\ Len(Val(updates.endTime)) > 0
                    THEN newDate(Val(updates.endTime)) ELSE @]

\* PUT /api/meetings/:id
UpdateMeeting(user, id, updates) ==
    /\ IF ~updateMeetingSchema(updates)
       THEN /\ resp' = Response("meeting-update", user, id, <<updates>>, <<>>, 400, <<>>, <<>>)
            /\ UNCHANGED meetings
       ELSE IF id \notin DOMAIN meetings
       THEN /\ resp' = Response("meeting-update", user, id, <<updates>>, <<>>, 404, <<>>, <<>>)
            /\ UNCHANGED meetings
       ELSE IF meetings[id].organizerId # user.id
       THEN /\ resp' = Response("meeting-update", user, id, <<updates>>, <<meetings[id]>>,
                                403, <<>>, <<>>)
            /\ UNCHANGED meetings
       ELSE IF /\ IsSome(updates.startTime) /\ Len(Val(updates.startTime)) > 0
               /\ IsSome(updates.endTime) /\ Len(Val(updates.endTime)) > 0
               /\ newDate(Val(updates.endTime)) <= newDate(Val(updates.startTime))
       THEN /\ resp' = Response("meeting-update", user, id, <<updates>>, <<meetings[id]>>,
                                400, <<>>, <<>>)
            /\ UNCHANGED meetings
       ELSE LET meeting == meetingUpdate(meetings[id], updates)
            IN  /\ meetings' = [meetings EXCEPT ![id] = meeting]
                /\ resp' = Response("meeting-update", user, id, <<updates>>, <<meetings[id]>>,
                                    200, <<meeting>>,
                                    <<[type |-> "meeting-updated", id |-> id]>>)
    /\ UNCHANGED <<issues, nextId, now, cache, req, comments, attachments>>

\* DELETE /api/meetings/:id
DeleteMeeting(user, id) ==
    /\ IF id \notin DOMAIN meetings
       THEN /\ resp' = Response("meeting-delete", user, id, <<>>, <<>>, 404, <<>>, <<>>)
            /\ UNCHANGED meetings
       ELSE IF meetings[id].organizerId # user.id
       THEN /\ resp' = Response("meeting-delete", user, id, <<>>, <<meetings[id]>>, 403,
                                <<>>, <<>>)
            /\ UNCHANGED meetings
       ELSE /\ meetings' = [m \in DOMAIN meetings \ {id} |-> meetings[m]]
            /\ resp' = Response("meeting-delete", user, id, <<>>, <<meetings[id]>>, 200, <<>>,
                                <<[type |-> "meeting-deleted", id |-> id]>>)
    /\ UNCHANGED <<issues, nextId, now, cache, req, comments, attachments>>

\* The date-time text of an hour of the day.
At(h1, h2) == <<"T", h1, h2>>

MeetingBodies ==
    [title : {<<"S", "y", "n", "c">>},
     startTime : {At("0", "9"), At("1", "0")},
     endTime : {At("1", "0"), At("1", "1"), <<"n", "o", "o", "n">>},
     type : Opt({"REVIEW"}), attendeeIds : {<<>>, <<"tm1">>, <<"ghost">>}]

MeetingPatches ==
    {p \in [title : {None},
            startTime : Opt({At("0", "9"), At("1", "1")}),
            endTime : Opt({At("0", "9"), At("1", "0"), <<"n", "o", "o", "n">>}),
            status : Opt({"CANCELLED"})] :
        \E f \in DOMAIN p : IsSome(p[f])}

MeetActors == {Admin, Head1}

NextMeet ==
    \/ \E u \in MeetActors, b \in MeetingBodies : CreateMeeting(u, b)
    \/ \E u \in MeetActors, m \in MeetingIds, p \in MeetingPatches : UpdateMeeting(u, m, p)
    \/ \E u \in MeetActors, m \in MeetingIds : DeleteMeeting(u, m)

SpecMeet == Init /\ [][NextMeet]_vars

\* C30: every stored meeting ends strictly after it starts.
C30_MeetingEndsAfterStart ==
    \A m \in DOMAIN meetings : meetings[m].endTime > meetings[m].startTime

====
